---- MODULE Spec2Model ----
(***************************************************************************)
(* State-machine model of project-static/src/sidenav.ts (class SideNav).   *)
(*                                                                         *)
(* The page is a document with one `.sidenav` container.  Its navbar holds *)
(* top-level nav items; item i owns a group link <<i, 0>> and nested nav   *)
(* links ("leaves") <<i, n>>, n >= 1.  Handlers run to completion, so each *)
(* DOM event is one action.                                                *)
(***************************************************************************)
EXTENDS Integers, Sequences, FiniteSets, TLC

VARIABLES
    body,                \* data-sidenav-* attributes present on document.body
    state,               \* StateManager<NavState>: the persisted preference
    currentMobileState,  \* "null" | "true" | "false"
    activeLink,          \* most recently clicked section link, NoLink = null
    sections,            \* keys of the Map link -> Collapse instance
    classList,           \* link -> subset of {"active", "collapsed"}
    ariaExpanded,        \* group link -> "true" | "false"
    panelShown,          \* items whose .collapse panel is displayed
    location,            \* window.location.href, a sequence of path segments
    constructed,         \* has `new SideNav(base)` run
    lastEvent,           \* observation: the handler that ran last
    lastPinCall,         \* observation: most recent of pin() / unpin()
    lastVisCall,         \* observation: most recent of show() / hide()
    called,              \* observation: methods the last handler run called
    peer                 \* fields of a second SideNav instance, if any

vars == <<body, state, currentMobileState, activeLink, sections, classList,
          ariaExpanded, panelShown, location, constructed, lastEvent,
          lastPinCall, lastVisCall, called, peer>>

----------------------------------------------------------------------------
(* Bounds of the document the model explores.                              *)

\* Number of top-level nav items that carry a collapsible section.
NumSections == 2

\* Longest location, in path segments.
MaxPath == 2

----------------------------------------------------------------------------
(* The document.                                                           *)

BodyAttr == {"show", "hide", "hidden", "pinned"}

\* Items 1..NumSections: link with data-bs-toggle and a sibling .collapse.
SectionItems == 1..NumSections
\* A top-level item whose direct nav-link has no sibling .collapse panel.
PlainItem == NumSections + 1
\* A top-level item with no direct nav-link at all.
BareItem == NumSections + 2

GroupLinkOf(i) == <<i, 0>>
GroupLinks == {GroupLinkOf(i) : i \in SectionItems \cup {PlainItem}}

\* Nested links in document order: two in section 1, one in every other item.
LeafSeq == <<<<1, 1>>, <<1, 2>>>> \o [k \in 1..(BareItem - 1) |-> <<k + 1, 1>>]
Leaves == {LeafSeq[k] : k \in 1..Len(LeafSeq)}
Links == GroupLinks \cup Leaves
NoLink == <<0, 0>>

\* link.href as path segments: <<i, 1>> points at /i, <<1, 2>> at /1/0.
Href(link) == IF link[2] = 1 THEN <<link[1]>> ELSE <<link[1], 0>>

Segments == 0..BareItem
Locations == UNION {[1..n -> Segments] : n \in 0..MaxPath}

\* The markup a section may be served with: collapsed or expanded.
Markups == [SectionItems -> BOOLEAN]


----------------------------------------------------------------------------
(* The component's state as one record, so that methods compose.           *)

Self == [body |-> body, state |-> state,
         currentMobileState |-> currentMobileState,
         activeLink |-> activeLink, sections |-> sections,
         classList |-> classList, ariaExpanded |-> ariaExpanded,
         panelShown |-> panelShown, base |-> LeafSeq,
         lastPinCall |-> lastPinCall, lastVisCall |-> lastVisCall,
         called |-> {}]

Become(s) ==
    /\ body' = s.body
    /\ state' = s.state
    /\ currentMobileState' = s.currentMobileState
    /\ activeLink' = s.activeLink
    /\ sections' = s.sections
    /\ classList' = s.classList
    /\ ariaExpanded' = s.ariaExpanded
    /\ panelShown' = s.panelShown
    /\ lastPinCall' = s.lastPinCall
    /\ lastVisCall' = s.lastVisCall
    /\ called' = s.called

\* What is observed of a handler run: its name, its input, the activeLink it
\* found (clicks) and the currentMobileState it found (resizes).  A pin
\* toggle is observed with the body flags it found and the handler before it.
Event(op, arg, was, from) == [op |-> op, arg |-> arg, was |-> was, from |-> from]

----------------------------------------------------------------------------
(* Collaborators: bootstrap's Collapse and the StateManager.               *)

\* collapse.show() / collapse.hide() on the panel of group link g.
CollapseShow(s, g) == [s EXCEPT !.panelShown = @ \cup {g[1]}]
CollapseHide(s, g) == [s EXCEPT !.panelShown = @ \ {g[1]}]

\* The click-driven toggle of the data-api: flips the panel of the clicked
\* link and gives the link the matching visual state.
CollapseToggle(s, g) ==
    IF g[1] \in s.panelShown
    THEN [s EXCEPT !.panelShown = @ \ {g[1]},
                   !.classList[g] = @ \cup {"collapsed"},
                   !.ariaExpanded[g] = "false"]
    ELSE [s EXCEPT !.panelShown = @ \cup {g[1]},
                   !.classList[g] = @ \ {"collapsed"},
                   !.ariaExpanded[g] = "true"]

StateGet(s, key) == s.state[key]
StateSet(s, key, value) ==
    [s EXCEPT !.state[key] = value, !.called = @ \cup {"set"}]

----------------------------------------------------------------------------
(* Body attribute helpers.                                                 *)

bodyHas(s, attr) == attr \in s.body
bodyRemove(s, attrs) == [s EXCEPT !.body = @ \ attrs]
bodyAdd(s, attrs) == [s EXCEPT !.body = @ \cup attrs]

----------------------------------------------------------------------------
(* Active links.                                                           *)

\* location.href.match(new RegExp(link.href, 'gi')): the href, read as a
\* pattern of plain path segments, occurs somewhere in the location.
Matches(href, loc) ==
    \E k \in 0..(Len(loc) - Len(href)) :
        \A j \in 1..Len(href) : loc[k + j] = href[j]

IsActive(link) == Matches(Href(link), location)

\* Faulty variant: the generator stops after its first match.
getActiveLinksFirst(s) ==
    LET all == SelectSeq(s.base, IsActive)
    IN  IF all = <<>> THEN <<>> ELSE <<Head(all)>>

\* The links the generator yields: those under this.base, in document order.
getActiveLinks(s) == SelectSeq(s.base, IsActive)

\* The outermost .nav-item above `link`, and its direct .nav-link if any.
OutermostNavItem(link) == link[1]
HasGroupLink(item) == item # BareItem

\* Faulty variant: collapsing leaves `active` on the original link.
activateLinkKeepsActive(s, link, action) ==
    LET navItem == OutermostNavItem(link)
        groupLink == GroupLinkOf(navItem)
    IN  IF HasGroupLink(navItem) /\ groupLink \in s.sections
        THEN LET a == [s EXCEPT !.classList[groupLink] = @ \cup {"active"}]
             IN  IF action = "expand"
                 THEN LET b == [a EXCEPT !.ariaExpanded[groupLink] = "true"]
                          c == CollapseShow(b, groupLink)
                      IN  [c EXCEPT
                             !.classList[link] = @ \cup {"active"},
                             !.classList[groupLink] = @ \ {"collapsed"}]
                 ELSE LET b == [a EXCEPT !.ariaExpanded[groupLink] = "false"]
                          c == CollapseHide(b, groupLink)
                      IN  [c EXCEPT
                             !.classList[groupLink] = @ \cup {"collapsed"}]
        ELSE s

\* Faulty variant: the original link is marked before the group link and
\* its section are looked up.
activateLinkMarksFirst(s, link, action) ==
    LET navItem == OutermostNavItem(link)
        groupLink == GroupLinkOf(navItem)
        m == [s EXCEPT !.classList[link] =
                 IF action = "expand" THEN @ \cup {"active"} ELSE @ \ {"active"}]
    IN  IF HasGroupLink(navItem) /\ groupLink \in s.sections
        THEN LET a == [m EXCEPT !.classList[groupLink] = @ \cup {"active"}]
             IN  IF action = "expand"
                 THEN LET b == [a EXCEPT !.ariaExpanded[groupLink] = "true"]
                          c == CollapseShow(b, groupLink)
                      IN  [c EXCEPT
                             !.classList[groupLink] = @ \ {"collapsed"}]
                 ELSE LET b == [a EXCEPT !.ariaExpanded[groupLink] = "false"]
                          c == CollapseHide(b, groupLink)
                      IN  [c EXCEPT
                             !.classList[groupLink] = @ \cup {"collapsed"}]
        ELSE m

activateLink(s, link, action) ==
    LET navItem == OutermostNavItem(link)
        groupLink == GroupLinkOf(navItem)
    IN  IF HasGroupLink(navItem) /\ groupLink \in s.sections
        THEN LET a == [s EXCEPT !.classList[groupLink] = @ \cup {"active"}]
             IN  IF action = "expand"
                 THEN LET b == [a EXCEPT !.ariaExpanded[groupLink] = "true"]
                          c == CollapseShow(b, groupLink)
                      IN  [c EXCEPT
                             !.classList[link] = @ \cup {"active"},
                             !.classList[groupLink] = @ \ {"collapsed"}]
                 ELSE LET b == [a EXCEPT !.ariaExpanded[groupLink] = "false"]
                          c == CollapseHide(b, groupLink)
                      IN  [c EXCEPT
                             !.classList[link] = @ \ {"active"},
                             !.classList[groupLink] = @ \cup {"collapsed"}]
        ELSE s

\* for (const link of links) this.activateLink(link, action)
RECURSIVE activateAll(_, _, _)
activateAll(s, links, action) ==
    IF links = <<>> THEN s
    ELSE activateAll(activateLink(s, Head(links), action), Tail(links), action)

----------------------------------------------------------------------------
(* Visibility control.                                                     *)

\* Faulty variant: the transient `hide` flag is not cleared.
showKeepsHide(s) ==
    LET a == bodyAdd(s, {"show"})
        b == bodyRemove(a, {"hidden"})
        c == activateAll(b, getActiveLinks(b), "expand")
    IN  [c EXCEPT !.lastVisCall = "show", !.called = @ \cup {"show"}]

show(s) ==
    LET a == bodyAdd(s, {"show"})
        b == bodyRemove(a, {"hidden", "hide"})
        c == activateAll(b, getActiveLinks(b), "expand")
    IN  [c EXCEPT !.lastVisCall = "show", !.called = @ \cup {"show"}]

\* Faulty variant: the link is marked collapsed but its panel is left alone.
collapseSectionKeepsPanel(s, link) ==
    [s EXCEPT !.classList[link] = @ \cup {"collapsed"},
              !.ariaExpanded[link] = "false"]

\* One iteration of the loops of hide() and closeInactiveSections().
collapseSection(s, link) ==
    LET a == [s EXCEPT !.classList[link] = @ \cup {"collapsed"},
                       !.ariaExpanded[link] = "false"]
    IN  CollapseHide(a, link)

RECURSIVE collapseEach(_, _)
collapseEach(s, links) ==
    IF links = {} THEN s
    ELSE LET link == CHOOSE l \in links : TRUE
         IN  collapseEach(collapseSection(s, link), links \ {link})

\* Faulty variant: the transient `hide` flag is never cleared.
hideLeavesHide(s) ==
    LET a == bodyAdd(s, {"hide"})
        b == bodyRemove(a, {"pinned", "show"})
        c == collapseEach(b, b.sections)
        e == bodyAdd(c, {"hidden"})
    IN  [e EXCEPT !.lastVisCall = "hide", !.called = @ \cup {"hide"}]

\* Faulty variant: `pinned` is left on the body.
hideKeepsPinned(s) ==
    LET a == bodyAdd(s, {"hide"})
        b == bodyRemove(a, {"show"})
        c == collapseEach(b, b.sections)
        d == bodyRemove(c, {"hide"})
        e == bodyAdd(d, {"hidden"})
    IN  [e EXCEPT !.lastVisCall = "hide", !.called = @ \cup {"hide"}]

hide(s) ==
    LET a == bodyAdd(s, {"hide"})
        b == bodyRemove(a, {"pinned", "show"})
        c == collapseEach(b, b.sections)
        d == bodyRemove(c, {"hide"})
        e == bodyAdd(d, {"hidden"})
    IN  [e EXCEPT !.lastVisCall = "hide", !.called = @ \cup {"hide"}]

\* Faulty variant: the nav is marked pinned but not shown.
pinWithoutShow(s) ==
    LET a == StateSet(s, "pinned", TRUE)
        b == bodyAdd(a, {"pinned"})
    IN  [b EXCEPT !.lastPinCall = "pin", !.called = @ \cup {"pin"}]

pin(s) ==
    LET a == StateSet(s, "pinned", TRUE)
        b == bodyAdd(a, {"pinned"})
        c == show(b)
    IN  [c EXCEPT !.lastPinCall = "pin", !.called = @ \cup {"pin"}]

\* Faulty variant: the preference is not written.
unpinWithoutSet(s) == [hide(s) EXCEPT !.lastPinCall = "unpin", !.called = @ \cup {"unpin"}]

unpin(s) ==
    LET a == StateSet(s, "pinned", FALSE)
        b == hide(a)
    IN  [b EXCEPT !.lastPinCall = "unpin", !.called = @ \cup {"unpin"}]

----------------------------------------------------------------------------
(* Section collapse management.                                            *)

\* Faulty variant: the comparison is inverted.
closeActiveSection(s) ==
    collapseEach(s, {link \in s.sections : link = s.activeLink})

closeInactiveSections(s) ==
    collapseEach(s, {link \in s.sections : link # s.activeLink})

\* Faulty variant: activeLink is updated after the others are closed.
handleSectionClickStale(s, target) ==
    [closeInactiveSections(s) EXCEPT !.activeLink = target]

handleSectionClick(s, target) ==
    closeInactiveSections([s EXCEPT !.activeLink = target])

\* Every .nav-link[data-bs-toggle] with a sibling .collapse is registered.
initSectionLinks(s) ==
    [s EXCEPT !.sections = {GroupLinkOf(i) : i \in SectionItems}]

\* Faulty variant: the active sections are expanded whatever the body says.
initActiveLinksExpands(s) == activateAll(s, getActiveLinks(s), "expand")

initActiveLinks(s) ==
    activateAll(s, getActiveLinks(s),
                IF bodyHas(s, "show") THEN "expand" ELSE "collapse")

----------------------------------------------------------------------------
(* Handlers.  `mobile` is whether some .sidenav-toggle-mobile is rendered. *)

\* Faulty variant: the layout is not consulted.
onEnterAnyLayout(s) == IF ~bodyHas(s, "pinned") THEN show(s) ELSE s

onEnter(s) ==
    IF ~(s.currentMobileState = "true" \/ bodyHas(s, "pinned"))
    THEN show(s) ELSE s

\* Faulty variant: leaving the nav unpins it.
onLeaveUnpins(s) ==
    IF ~(s.currentMobileState = "true" \/ bodyHas(s, "pinned"))
    THEN unpin(s) ELSE s

onLeave(s) ==
    IF ~(s.currentMobileState = "true" \/ bodyHas(s, "pinned"))
    THEN hide(s) ELSE s

\* Faulty variant: every resize in mobile layout hides the nav again.
onResizeAlwaysHides(s, mobile) ==
    IF mobile
    THEN [hide(s) EXCEPT !.currentMobileState = "true"]
    ELSE IF s.currentMobileState \in {"null", "true"}
         THEN [(IF StateGet(s, "pinned") THEN pin(s) ELSE unpin(s))
                  EXCEPT !.currentMobileState = "false"]
         ELSE s

\* Faulty variant: entering desktop layout always pins.
onResizeAlwaysPins(s, mobile) ==
    IF mobile
    THEN IF s.currentMobileState \in {"null", "false"}
         THEN [hide(s) EXCEPT !.currentMobileState = "true"]
         ELSE s
    ELSE IF s.currentMobileState \in {"null", "true"}
         THEN [pin(s) EXCEPT !.currentMobileState = "false"]
         ELSE s

onResize(s, mobile) ==
    IF mobile
    THEN IF s.currentMobileState \in {"null", "false"}
         THEN [hide(s) EXCEPT !.currentMobileState = "true"]
         ELSE s
    ELSE IF s.currentMobileState \in {"null", "true"}
         THEN [(IF StateGet(s, "pinned") THEN pin(s) ELSE unpin(s))
                  EXCEPT !.currentMobileState = "false"]
         ELSE s

\* Faulty variant: the decision reads the body flag, not the preference.
onToggleByFlag(s) == IF bodyHas(s, "pinned") THEN unpin(s) ELSE pin(s)

onToggle(s) == IF StateGet(s, "pinned") THEN unpin(s) ELSE pin(s)

onMobileToggle(s) == IF bodyHas(s, "show") THEN hide(s) ELSE show(s)

\* init(): listeners are attached and onResize() runs once.
init(s, mobile) == onResize(s, mobile)

\* new SideNav(base)
SideNav(s, mobile) == initActiveLinks(initSectionLinks(init(s, mobile)))

----------------------------------------------------------------------------
(* The page before the script runs, and the events after it.               *)

Flag(b) == IF b THEN 1 ELSE 0

\* The four body flags as one number.
BodyCode(b) == Flag("show" \in b) + 2 * Flag("hidden" \in b)
               + 4 * Flag("pinned" \in b) + 8 * Flag("hide" \in b)

\* The fields each instance owns; the page of Spec has one .sidenav only.
Fields(s) == [currentMobileState |-> s.currentMobileState,
              activeLink |-> s.activeLink,
              sections |-> s.sections,
              base |-> s.base]
NoPeer == [currentMobileState |-> "null", activeLink |-> NoLink,
           sections |-> {}, base |-> <<>>]

Init ==
    /\ body \in SUBSET BodyAttr
    /\ state \in [pinned : BOOLEAN]
    /\ currentMobileState = "null"
    /\ activeLink = NoLink
    /\ sections = {}
    /\ \E mk \in Markups :
         /\ classList = [l \in Links |->
                IF l[2] = 0 /\ l[1] \in SectionItems /\ ~mk[l[1]]
                THEN {"collapsed"} ELSE {}]
         /\ ariaExpanded = [g \in GroupLinks |->
                IF g[1] \in SectionItems /\ mk[g[1]] THEN "true" ELSE "false"]
         /\ panelShown = {i \in SectionItems : mk[i]}
    /\ location \in Locations
    /\ constructed = FALSE
    /\ lastEvent = Event("none", 0, NoLink, "-")
    /\ lastPinCall = "none"
    /\ lastVisCall = "none"
    /\ called = {}
    /\ peer = NoPeer

Construct ==
    /\ ~constructed
    /\ \E mobile \in BOOLEAN :
         /\ Become(SideNav(Self, mobile))
         /\ lastEvent' = Event("new", Flag(mobile), NoLink, currentMobileState)
    /\ constructed' = TRUE
    /\ UNCHANGED <<location, peer>>

\* A click whose event.target is the section link: the component's listener
\* runs first, then the collapse controller toggles the clicked section.
SectionClick ==
    /\ constructed
    /\ \E link \in sections :
         /\ Become(CollapseToggle(handleSectionClick(Self, link), link))
         /\ lastEvent' = Event("click", link[1], activeLink, "-")
    /\ UNCHANGED <<location, constructed, peer>>

MouseEnter ==
    /\ constructed
    /\ Become(onEnter(Self))
    /\ lastEvent' = Event("enter", 0, NoLink, "-")
    /\ UNCHANGED <<location, constructed, peer>>

MouseLeave ==
    /\ constructed
    /\ Become(onLeave(Self))
    /\ lastEvent' = Event("leave", 0, NoLink, "-")
    /\ UNCHANGED <<location, constructed, peer>>

Resize ==
    /\ constructed
    /\ \E mobile \in BOOLEAN :
         /\ Become(onResize(Self, mobile))
         /\ lastEvent' = Event("resize", Flag(mobile), NoLink, currentMobileState)
    /\ UNCHANGED <<location, constructed, peer>>

Toggle ==
    /\ constructed
    /\ Become(onToggle(Self))
    /\ lastEvent' = Event("toggle", BodyCode(body), NoLink, lastEvent.op)
    /\ UNCHANGED <<location, constructed, peer>>

MobileToggle ==
    /\ constructed
    /\ Become(onMobileToggle(Self))
    /\ lastEvent' = Event("mobileToggle", 0, NoLink, "-")
    /\ UNCHANGED <<location, constructed, peer>>

Next ==
    \/ Construct
    \/ SectionClick
    \/ MouseEnter
    \/ MouseLeave
    \/ Resize
    \/ Toggle
    \/ MobileToggle

Spec == Init /\ [][Next]_vars

TypeOK ==
    /\ body \subseteq BodyAttr
    /\ state \in [pinned : BOOLEAN]
    /\ currentMobileState \in {"null", "true", "false"}
    /\ activeLink \in GroupLinks \cup {NoLink}
    /\ sections \subseteq GroupLinks
    /\ classList \in [Links -> SUBSET {"active", "collapsed"}]
    /\ ariaExpanded \in [GroupLinks -> {"true", "false"}]
    /\ panelShown \subseteq SectionItems
    /\ location \in Locations
    /\ constructed \in BOOLEAN
    /\ called \subseteq {"show", "hide", "pin", "unpin", "set"}
    /\ peer.currentMobileState \in {"null", "true", "false"}
    /\ peer.sections \subseteq GroupLinks


----------------------------------------------------------------------------
(* The methods taken one at a time, from any component state: any body     *)
(* flags, any layout memory, the section registry empty (as during init)   *)
(* or filled.  A call is observed with the number of body flags it found.  *)

InitUnit ==
    /\ body \in SUBSET BodyAttr
    /\ state \in [pinned : BOOLEAN]
    /\ currentMobileState \in {"null", "true", "false"}
    /\ activeLink = NoLink
    /\ sections \in {{}, {GroupLinkOf(i) : i \in SectionItems}}
    /\ \E mk \in Markups :
         /\ classList = [l \in Links |->
                IF l[2] = 0 /\ l[1] \in SectionItems /\ ~mk[l[1]]
                THEN {"collapsed"} ELSE {}]
         /\ ariaExpanded = [g \in GroupLinks |->
                IF g[1] \in SectionItems /\ mk[g[1]] THEN "true" ELSE "false"]
         /\ panelShown = {i \in SectionItems : mk[i]}
    /\ location \in Locations
    /\ constructed = FALSE
    /\ lastEvent = Event("none", 0, NoLink, "-")
    /\ lastPinCall = "none"
    /\ lastVisCall = "none"
    /\ called = {}
    /\ peer = NoPeer

CallShow ==
    /\ Become(show(Self))
    /\ lastEvent' = Event("show", Cardinality(body), NoLink, "-")
    /\ UNCHANGED <<location, constructed, peer>>

CallHide ==
    /\ Become(hide(Self))
    /\ lastEvent' = Event("hide", Cardinality(body), NoLink, "-")
    /\ UNCHANGED <<location, constructed, peer>>

\* for (const link of this.getActiveLinks()) {}: the generator is run to its
\* end; the call is observed with the number of links it yielded.
CallGetActiveLinks ==
    /\ Become(Self)
    /\ lastEvent' = Event("getActiveLinks", Len(getActiveLinks(Self)), NoLink, "-")
    /\ UNCHANGED <<location, constructed, peer>>

NextUnit ==
    \/ CallShow
    \/ CallHide
    \/ CallGetActiveLinks

SpecUnit == InitUnit /\ [][NextUnit]_vars


----------------------------------------------------------------------------
(* activateLink called on its own: on the document as served, with any     *)
(* links already marked by earlier calls, while the section registry is    *)
(* still empty (as during init) or filled.                                 *)

InitLink ==
    /\ body \in {{"hidden"}, {"show"}}
    /\ state = [pinned |-> FALSE]
    /\ currentMobileState = "false"
    /\ activeLink = NoLink
    /\ sections \in {{}, {GroupLinkOf(i) : i \in SectionItems}}
    /\ \E mk \in Markups :
         /\ classList = [l \in Links |->
                IF l[2] = 0 /\ l[1] \in SectionItems /\ ~mk[l[1]]
                THEN {"collapsed"} ELSE {}]
         /\ ariaExpanded = [g \in GroupLinks |->
                IF g[1] \in SectionItems /\ mk[g[1]] THEN "true" ELSE "false"]
         /\ panelShown = {i \in SectionItems : mk[i]}
    /\ location = <<>>
    /\ constructed = FALSE
    /\ lastEvent = Event("none", 0, NoLink, "-")
    /\ lastPinCall = "none"
    /\ lastVisCall = "none"
    /\ called = {}
    /\ peer = NoPeer

\* this.activateLink(link, action) for a link the generator can yield; the
\* call is observed with the action, the link and its place in the document.
CallActivateLink ==
    /\ \E k \in 1..Len(LeafSeq), action \in {"expand", "collapse"} :
         /\ Become(activateLink(Self, LeafSeq[k], action))
         /\ lastEvent' = Event(action, k, LeafSeq[k], "-")
    /\ UNCHANGED <<location, constructed, peer>>

NextLink == CallActivateLink

SpecLink == InitLink /\ [][NextLink]_vars

----------------------------------------------------------------------------
(* A page with two .sidenav containers: initSideNav constructs one SideNav *)
(* per container, the first as in Spec, the second (`peer`) on a container *)
(* that holds no nav links.  document.body, the state store under the key  *)
(* 'netbox-sidenav', the mobile togglers and the section links (both       *)
(* found by document-wide queries) are common to the two; the pin button   *)
(* and the hover listeners are per container.  A DOM event runs the        *)
(* listeners in the order they were added: first instance, then second.    *)

\* The record `s` with the instance fields `f` in place of its own.
AsInstance(s, f) ==
    [s EXCEPT !.currentMobileState = f.currentMobileState,
              !.activeLink = f.activeLink,
              !.sections = f.sections,
              !.base = f.base]

\* What the second instance works on when the first has left `s`.
Peer(s) == AsInstance(s, peer)

\* The first instance was left as in r1 and the second then ended in r2.
Ran(r1, r2) ==
    /\ Become(AsInstance(r2, Fields(r1)))
    /\ peer' = Fields(r2)

Instances == {1, 2}

ConstructTwo ==
    /\ ~constructed
    /\ \E mobile \in BOOLEAN :
         /\ LET r1 == SideNav(Self, mobile)
            IN  Ran(r1, SideNav(Peer(r1), mobile))
         /\ lastEvent' = Event("new", Flag(mobile), NoLink, currentMobileState)
    /\ constructed' = TRUE
    /\ UNCHANGED location

SectionClickTwo ==
    /\ constructed
    /\ \E link \in sections :
         LET r1 == handleSectionClick(Self, link)
             r2 == handleSectionClick(Peer(r1), link)
         IN  /\ Ran(r1, CollapseToggle(r2, link))
             /\ lastEvent' = Event("click", link[1], activeLink, "-")
    /\ UNCHANGED <<location, constructed>>

MouseEnterAt ==
    /\ constructed
    /\ \E i \in Instances :
         /\ IF i = 1
            THEN Become(onEnter(Self)) /\ UNCHANGED peer
            ELSE Ran(Self, onEnter(Peer(Self)))
         /\ lastEvent' = Event("enter", i, NoLink, "-")
    /\ UNCHANGED <<location, constructed>>

MouseLeaveAt ==
    /\ constructed
    /\ \E i \in Instances :
         /\ IF i = 1
            THEN Become(onLeave(Self)) /\ UNCHANGED peer
            ELSE Ran(Self, onLeave(Peer(Self)))
         /\ lastEvent' = Event("leave", i, NoLink, "-")
    /\ UNCHANGED <<location, constructed>>

ResizeTwo ==
    /\ constructed
    /\ \E mobile \in BOOLEAN :
         /\ LET r1 == onResize(Self, mobile)
            IN  Ran(r1, onResize(Peer(r1), mobile))
         /\ lastEvent' = Event("resize", Flag(mobile), NoLink, currentMobileState)
    /\ UNCHANGED <<location, constructed>>

ToggleAt ==
    /\ constructed
    /\ \E i \in Instances :
         /\ IF i = 1
            THEN Become(onToggle(Self)) /\ UNCHANGED peer
            ELSE Ran(Self, onToggle(Peer(Self)))
         /\ lastEvent' = Event("toggle", BodyCode(body), NoLink, lastEvent.op)
    /\ UNCHANGED <<location, constructed>>

MobileToggleTwo ==
    /\ constructed
    /\ LET r1 == onMobileToggle(Self)
       IN  Ran(r1, onMobileToggle(Peer(r1)))
    /\ lastEvent' = Event("mobileToggle", 0, NoLink, "-")
    /\ UNCHANGED <<location, constructed>>

NextTwo ==
    \/ ConstructTwo
    \/ SectionClickTwo
    \/ MouseEnterAt
    \/ MouseLeaveAt
    \/ ResizeTwo
    \/ ToggleAt
    \/ MobileToggleTwo

SpecTwo == Init /\ [][NextTwo]_vars

----------------------------------------------------------------------------
(* Properties.                                                             *)

\* The component's own state and the DOM it writes.
component == <<body, state, currentMobileState, activeLink, sections,
               classList, ariaExpanded, panelShown>>

Collapsed(g) ==
    /\ g[1] \notin panelShown
    /\ "collapsed" \in classList[g]
    /\ ariaExpanded[g] = "false"

\* The registered sections that hold a link matching the location.
ActiveSections ==
    {l[1] : l \in {x \in Leaves : IsActive(x)}} \cap {g[1] : g \in sections}

\* C1: after any sequence of pin() and unpin() calls, reached through
\* onToggle or onResize, the persisted `pinned` preference is true if the
\* most recent call was pin() and false if it was unpin().
C1_PersistedFollowsLastCall ==
    /\ lastPinCall = "pin" => state.pinned = TRUE
    /\ lastPinCall = "unpin" => state.pinned = FALSE

\* onResize left mobile layout and called unpin(), after an earlier onToggle
\* or the stored value had made the preference false.
C1_Witness ==
    /\ lastEvent.op = "resize"
    /\ lastEvent.from = "true"
    /\ lastEvent.arg = 0
    /\ lastPinCall = "unpin"
    /\ state.pinned = FALSE

\* C2: from any combination of the four body flags, hide() ends with
\* `hidden` set and `show`, `hide` and `pinned` cleared.
C2_HideEndsHidden ==
    [][lastEvent'.op = "hide" => body' = {"hidden"}]_vars

\* hide() ran on a body that carried all four flags.
C2_Witness ==
    /\ lastEvent.op = "hide"
    /\ lastEvent.arg = Cardinality(BodyAttr)
    /\ body = {"hidden"}
    /\ sections # {}
    /\ panelShown = {}

\* C3: from any combination of the four body flags, show() ends with `show`
\* set and `hide` and `hidden` cleared, and leaves `pinned` as it was.
C3_ShowEndsShown ==
    [][lastEvent'.op = "show" =>
          /\ "show" \in body'
          /\ "hide" \notin body'
          /\ "hidden" \notin body'
          /\ ("pinned" \in body') = ("pinned" \in body)]_vars

\* show() ran on a body that carried all four flags, kept `pinned` and
\* expanded the section of the location.
C3_Witness ==
    /\ lastEvent.op = "show"
    /\ lastEvent.arg = Cardinality(BodyAttr)
    /\ body = {"show", "pinned"}
    /\ ActiveSections # {}
    /\ ActiveSections \subseteq panelShown


\* C4 as claimed: in every state after construction at most one registered
\* section is expanded, when the links matching the location lie in at most
\* one section.  Stated on the steps that follow a section click in a shown
\* nav, which has closed every other section whatever markup the page was
\* served with: no handler event then leads to a state with two expanded
\* sections.
C4_AtMostOneExpandedAlways ==
    [][(/\ constructed
        /\ Cardinality(ActiveSections) <= 1
        /\ lastEvent.op = "click"
        /\ "show" \in body
        /\ Cardinality(panelShown) <= 1)
       => Cardinality(panelShown') <= 1]_vars

\* C4 amended: directly after a section click at most one registered section
\* is expanded, and it can only be the clicked one; every other registered
\* section is collapsed.
C4_AtMostOneExpandedAfterClick ==
    lastEvent.op = "click" =>
        /\ Cardinality(panelShown) <= 1
        /\ panelShown \subseteq {lastEvent.arg}
        /\ \A g \in sections \ {GroupLinkOf(lastEvent.arg)} : Collapsed(g)

\* A click on section 2 closed the section of the location, which show() had
\* expanded, and opened its own.
C4_Witness ==
    /\ lastEvent.op = "click"
    /\ lastEvent.arg = 2
    /\ ActiveSections = {1}
    /\ "active" \in classList[GroupLinkOf(1)]
    /\ "show" \in body
    /\ panelShown = {2}

\* C5: after handleSectionClick on A and then handleSectionClick on another
\* registered link B, activeLink is B and every registered section other
\* than B's is collapsed: panel hidden, link `collapsed`, aria-expanded false.
C5_ClickAThenB ==
    (/\ lastEvent.op = "click"
     /\ lastEvent.was \in sections
     /\ lastEvent.was # GroupLinkOf(lastEvent.arg))
    => /\ activeLink = GroupLinkOf(lastEvent.arg)
       /\ \A g \in sections \ {activeLink} : Collapsed(g)

\* Section 1 was clicked, then section 2: 2 is open and 1 is collapsed.
C5_Witness ==
    /\ lastEvent.op = "click"
    /\ lastEvent.was = GroupLinkOf(1)
    /\ lastEvent.arg = 2
    /\ activeLink = GroupLinkOf(2)
    /\ 2 \in panelShown
    /\ Collapsed(GroupLinkOf(1))

\* C6: an onResize that sees a rendered mobile toggler while
\* currentMobileState is false or null ends with the nav hidden and
\* currentMobileState true; one that sees it while currentMobileState is
\* already true changes nothing.
C6_ResizeToMobile ==
    [][(lastEvent'.op \in {"new", "resize"} /\ lastEvent'.arg = 1) =>
          IF currentMobileState = "true"
          THEN UNCHANGED component
          ELSE /\ currentMobileState' = "true"
               /\ "hidden" \in body'
               /\ "show" \notin body']_vars

\* A resize in mobile layout left alone a nav that onMobileToggle had shown.
C6_Witness ==
    /\ lastEvent.op = "resize"
    /\ lastEvent.arg = 1
    /\ lastEvent.from = "true"
    /\ currentMobileState = "true"
    /\ "show" \in body
    /\ "hidden" \notin body

\* C7: an onResize that sees no rendered mobile toggler while
\* currentMobileState is true or null sets currentMobileState false and
\* applies the persisted preference: pinned gives `show` and `pinned` set and
\* `hidden` cleared, unpinned gives `hidden` set and `show` and `pinned`
\* cleared.
C7_ResizeToDesktop ==
    [][(/\ lastEvent'.op \in {"new", "resize"}
        /\ lastEvent'.arg = 0
        /\ currentMobileState \in {"true", "null"})
       => /\ currentMobileState' = "false"
          /\ state' = state
          /\ IF state.pinned
             THEN /\ {"show", "pinned"} \subseteq body'
                  /\ "hidden" \notin body'
             ELSE /\ "hidden" \in body'
                  /\ "show" \notin body'
                  /\ "pinned" \notin body']_vars

\* The layout went from mobile to desktop with the nav hidden and the
\* preference pinned: the nav is shown and pinned.
C7_Witness ==
    /\ lastEvent.op = "resize"
    /\ lastEvent.arg = 0
    /\ lastEvent.from = "true"
    /\ currentMobileState = "false"
    /\ state.pinned
    /\ body = {"show", "pinned"}

\* C8: after construction, a body that carries `pinned` carries `show` and
\* does not carry `hidden`.
C8_PinnedImpliesShown ==
    (constructed /\ "pinned" \in body) =>
        ("show" \in body /\ "hidden" \notin body)

\* The pin button pinned a nav that was hidden.
C8_Witness ==
    /\ constructed
    /\ lastEvent.op = "toggle"
    /\ "pinned" \in body
    /\ "show" \in body

\* C9 as claimed: while the layout stays mobile no handler event sets the
\* body `pinned` flag or changes the persisted preference, and only
\* onMobileToggle changes shown/hidden.
C9_NoPinWhileMobile ==
    [][(constructed /\ currentMobileState = "true"
                    /\ currentMobileState' = "true")
       => /\ "pinned" \in body' => "pinned" \in body
          /\ state' = state
          /\ (body' \cap {"show", "hidden"}) # (body \cap {"show", "hidden"})
                => lastEvent'.op = "mobileToggle"]_vars

\* C10: onEnter and onLeave change nothing when the layout is mobile or the
\* body carries `pinned`; otherwise onEnter ends with the nav shown and
\* onLeave ends with it hidden and every registered section collapsed.
C10_Hover ==
    [][lastEvent'.op \in {"enter", "leave"} =>
          IF currentMobileState = "true" \/ "pinned" \in body
          THEN UNCHANGED component
          ELSE /\ lastEvent'.op = "enter" =>
                    ("show" \in body' /\ "hidden" \notin body')
               /\ lastEvent'.op = "leave" =>
                    /\ "hidden" \in body'
                    /\ "show" \notin body'
                    /\ \A g \in sections' : g[1] \notin panelShown'
                                            /\ "collapsed" \in classList'[g]
                                            /\ ariaExpanded'[g] = "false"]_vars

\* The pointer entered an unpinned nav in desktop layout: the nav is shown.
C10_Witness ==
    /\ lastEvent.op = "enter"
    /\ currentMobileState = "false"
    /\ body = {"show"}
    /\ ActiveSections # {}
    /\ ActiveSections \subseteq panelShown


\* C11 as claimed: each onToggle negates the preference and leaves `pinned`
\* and `show` set exactly when it is now true and `hidden` exactly when it is
\* now false, and the second of two consecutive onToggle events restores the
\* preference and the four body flags found by the first.  Stated for the
\* desktop layout, where the pin button is offered.
C11_ToggleTwiceRestores ==
    [][(/\ constructed
        /\ currentMobileState = "false"
        /\ lastEvent'.op = "toggle") =>
          /\ state'.pinned = ~state.pinned
          /\ ("pinned" \in body') = state'.pinned
          /\ ("show" \in body') = state'.pinned
          /\ ("hidden" \in body') = ~state'.pinned
          /\ lastEvent.op = "toggle" => BodyCode(body') = lastEvent.arg]_vars

\* C11 amended: as above, but the second of two consecutive onToggle events
\* restores the body flags exactly when the flags found by the first already
\* agreed with the preference: `show` and `pinned` alone with the preference
\* true, `hidden` alone with it false.
C11_ToggleNegates ==
    [][(constructed /\ lastEvent'.op = "toggle") =>
          /\ state'.pinned = ~state.pinned
          /\ ("pinned" \in body') = state'.pinned
          /\ ("show" \in body') = state'.pinned
          /\ ("hidden" \in body') = ~state'.pinned
          /\ "hide" \notin body'
          /\ lastEvent.op = "toggle" =>
                ((BodyCode(body') = lastEvent.arg) <=>
                    (lastEvent.arg = IF state'.pinned
                                     THEN BodyCode({"show", "pinned"})
                                     ELSE BodyCode({"hidden"})))]_vars

\* Two pin toggles in a row on a hovered, unpinned nav: the preference is
\* false again and the nav, found shown, is hidden.
C11_Witness ==
    /\ lastEvent.op = "toggle"
    /\ lastEvent.from = "toggle"
    /\ lastEvent.arg = BodyCode({"show", "pinned"})
    /\ state.pinned = FALSE
    /\ body = {"hidden"}
    /\ currentMobileState = "false"


\* C12 as claimed: onMobileToggle flips shown/hidden (it ends hidden if
\* `show` was set and shown otherwise) and leaves the persisted preference
\* and the body `pinned` flag as they were.  Stated for the mobile layout,
\* where the mobile button is rendered.
C12_MobileToggleKeepsPin ==
    [][(/\ constructed
        /\ currentMobileState = "true"
        /\ lastEvent'.op = "mobileToggle") =>
          /\ IF "show" \in body
             THEN "hidden" \in body' /\ "show" \notin body'
             ELSE "show" \in body' /\ "hidden" \notin body'
          /\ state' = state
          /\ ("pinned" \in body') = ("pinned" \in body)]_vars


\* The top-level items that hold a link matching the location.
MatchedItems == {l[1] : l \in {x \in Leaves : IsActive(x)}}

\* C13 as claimed: when only links of section X match the location,
\* construction ends with X's group link `active` and X's panel expanded and
\* with every other section collapsed, for every layout and every persisted
\* preference.  Stated for pages served with every section collapsed.
C13_ConstructionExpandsActive ==
    [][(/\ lastEvent'.op = "new"
        /\ panelShown = {}
        /\ \E x \in SectionItems : MatchedItems = {x})
       => \A x \in MatchedItems :
             /\ "active" \in classList'[GroupLinkOf(x)]
             /\ x \in panelShown'
             /\ \A y \in SectionItems \ {x} : y \notin panelShown']_vars

\* C13 amended: construction ends with X's group link `active`; X's panel is
\* expanded exactly when construction ends with the nav shown, that is in
\* desktop layout with the preference pinned, and collapsed otherwise; every
\* other section is left as the page was served.
C13_ConstructionMarksActive ==
    [][(/\ lastEvent'.op = "new"
        /\ \E x \in SectionItems : MatchedItems = {x})
       => \A x \in MatchedItems :
             LET g == GroupLinkOf(x) IN
             /\ "active" \in classList'[g]
             /\ ("show" \in body') = (lastEvent'.arg = 0 /\ state.pinned)
             /\ (x \in panelShown') = ("show" \in body')
             /\ ("collapsed" \in classList'[g]) = ("show" \notin body')
             /\ (ariaExpanded'[g] = "true") = ("show" \in body')
             /\ \A y \in SectionItems \ {x} :
                   /\ (y \in panelShown') = (y \in panelShown)
                   /\ classList'[GroupLinkOf(y)] = classList[GroupLinkOf(y)]
                   /\ ariaExpanded'[GroupLinkOf(y)]
                         = ariaExpanded[GroupLinkOf(y)]]_vars

\* The page was loaded in mobile layout at a location of section 1: its
\* group link is active and its panel collapsed, the nav being hidden.
C13_Witness ==
    /\ lastEvent.op = "new"
    /\ lastEvent.arg = 1
    /\ MatchedItems = {1}
    /\ "active" \in classList[GroupLinkOf(1)]
    /\ Collapsed(GroupLinkOf(1))
    /\ body = {"hidden"}


\* C14: the body `hide` flag is transient: after construction no state
\* between handler runs carries it, and a state whose most recent show()
\* or hide() call was hide() carries `hidden`.
C14_HideIsTransient ==
    constructed =>
        /\ "hide" \notin body
        /\ lastVisCall = "hide" => "hidden" \in body

\* onLeave ran hide(): the body carries `hidden` and not `hide`.
C14_Witness ==
    /\ constructed
    /\ lastEvent.op = "leave"
    /\ "hide" \in called
    /\ body = {"hidden"}


\* C15 as claimed: the only handler that writes the state store is onToggle;
\* onResize, onEnter, onLeave, onMobileToggle, handleSectionClick and
\* construction perform no write.
C15_OnlyToggleWrites ==
    []["set" \in called' => lastEvent'.op = "toggle"]_vars

\* C15 amended: only onToggle changes the stored value.  onResize, and
\* construction through it, write the store when the layout becomes desktop,
\* with the value they have just read; no other handler writes.
C15_OnlyToggleChangesValue ==
    [][/\ state' # state => lastEvent'.op = "toggle"
       /\ lastEvent'.op = "toggle" => "set" \in called'
       /\ "set" \in called' => lastEvent'.op \in {"toggle", "resize", "new"}
       /\ ("set" \in called' /\ lastEvent'.op \in {"resize", "new"}) =>
             /\ lastEvent'.arg = 0
             /\ currentMobileState # "false"
             /\ currentMobileState' = "false"
             /\ state' = state]_vars

\* A resize from mobile to desktop layout wrote the preference back.
C15_Witness ==
    /\ lastEvent.op = "resize"
    /\ lastEvent.from = "true"
    /\ "set" \in called
    /\ "pin" \in called
    /\ state.pinned


\* C16 as claimed, in its particular case: on a page with two SideNav
\* instances one click on a mobile toggler flips shown/hidden exactly once.
\* Stated for the mobile layout, where the mobile button is rendered.
C16_OneClickFlipsOnce ==
    [][(/\ constructed
        /\ currentMobileState = "true"
        /\ lastEvent'.op = "mobileToggle") =>
          ("show" \in body') = ("show" \notin body)]_vars

----------------------------------------------------------------------------
\* Position of a nested link in the document.
Position(l) == CHOOSE k \in 1..Len(LeafSeq) : LeafSeq[k] = l

----------------------------------------------------------------------------
\* C18: every hide() run after construction, whichever handler invoked it,
\* leaves every registered section collapsed (link `collapsed`,
\* aria-expanded=false, panel hidden), so directly after it no section is
\* expanded while the body is `hidden`.
C18_HideCollapsesAll ==
    (constructed /\ lastEvent.op # "new" /\ "hide" \in called) =>
        /\ \A g \in sections : Collapsed(g)
        /\ panelShown = {}
        /\ "hidden" \in body

\* Reached: onLeave ran hide() on a nav whose first section had been expanded
\* for an active link under it.
C18_Witness ==
    /\ constructed
    /\ lastEvent.op = "leave"
    /\ "hide" \in called
    /\ "active" \in classList[LeafSeq[1]]
    /\ GroupLinkOf(1) \in sections
    /\ Collapsed(GroupLinkOf(1))

----------------------------------------------------------------------------
\* The link handed to the activateLink call that made this state, the group
\* link of its outermost nav item, and whether that one has a section.
Activating(e) == e.op \in {"expand", "collapse"}
GroupOf(e) == GroupLinkOf(OutermostNavItem(e.was))
HasSection(e) ==
    HasGroupLink(OutermostNavItem(e.was)) /\ GroupOf(e) \in sections

C20_NoSectionNoEffect ==
    [][(Activating(lastEvent') /\ ~HasSection(lastEvent')) =>
          UNCHANGED component]_vars

\* Reached: an expand call for the link of the item without a group link,
\* made with the sections registered and section 1 served collapsed.
C20_Witness ==
    /\ lastEvent.op = "expand"
    /\ OutermostNavItem(lastEvent.was) = BareItem
    /\ sections # {}
    /\ Collapsed(GroupLinkOf(1))
    /\ "active" \notin classList[lastEvent.was]

============================================================================
